---- MODULE Spec2Model ----
(***************************************************************************)
(* Model of the evaluation harness of discord-cluster-manager              *)
(* (src/discord-cluster-manager/run_eval.py): run_config dispatches a job  *)
(* to run_pytorch_script or run_cuda_script, which write the submission    *)
(* files, compile (native path), run the child through run_program and     *)
(* remove the files again.  A sequence of attempts runs in one working     *)
(* directory.                                                              *)
(*                                                                         *)
(* Environment assumptions: os.remove of an existing file succeeds; the    *)
(* child touches only the verdict pipe, its exit status, its output        *)
(* streams and files named like submission files.                          *)
(***************************************************************************)
EXTENDS Integers, Sequences, FiniteSets, TLC

VARIABLES
    attempt,    \* 0 before the first call of run_config, 1 for the first
                \* call in the working directory, 2 for every later call
    cfg,        \* the config dict handed to run_config
    pc,         \* position of the harness inside run_config and its callees
    idx,        \* index of the running for-loop (write / cleanup)
    pending,    \* what the active try block is completing with once finally is over
    fs,         \* working directory: file name -> kind of content
    written,    \* files this attempt wrote from sources / headers (history)
    artAtStart, \* did eval.out exist when this attempt started (history)
    comp,       \* compile_result of run_cuda_script
    runres,     \* RunResult under construction / returned by run_program
    pipe,       \* the verdict pipe of run_program
    child,      \* the child process of run_program
    sent,       \* verdict lines the child wrote into the pipe (history)
    outcome,    \* how run_config ended: "none", "returned", "raised"
    full,       \* the FullResult run_config returned
    calls,      \* subprocess calls of this attempt so far (history)
    other       \* position of a second attempt working in the same directory

vars == <<attempt, cfg, pc, idx, pending, fs, written, artAtStart, comp,
          runres, pipe, child, sent, outcome, full, calls, other>>

----------------------------------------------------------------------------
(* Bounds *)

PipeCapacity == 2       \* verdict lines the OS pipe buffers before a write blocks

----------------------------------------------------------------------------
(* Program constants *)

SUCCESS == 0            \* ExitCode.SUCCESS
VALIDATE_FAIL == 112    \* ExitCode.VALIDATE_FAIL

\* exit codes a child may end with: the two recognised ones and another
ExitCodes == {SUCCESS, VALIDATE_FAIL, 1}

\* output streams a child may leave behind, as <<stdout, stderr>>
ChildOutputs == {<<"", "">>, <<"check: pass", "err">>}

\* seed: int = 42, the default of run_cuda_script and run_pytorch_script
DefaultSeed == 42

\* seeds a job configuration may carry
Seeds == {DefaultSeed, 7}

Artifact == "eval.out"
SourceNames == {"f1", "f2"}
Files == SourceNames \cup {Artifact}

\* an absent value (None) is the empty sequence, a present one <<value>>
None == <<>>
Some(v) == <<v>>
NoMain == ""

----------------------------------------------------------------------------
(* Job configurations *)

SeqsNoDup(S) ==
    { s \in UNION { [1..k -> S] : k \in 0..Cardinality(S) } :
        \A a, b \in DOMAIN s : a # b => s[a] # s[b] }

Range(s) == { s[k] : k \in DOMAIN s }

\* config["lang"], config["sources"] (keys in mapping order),
\* config.get("headers", {}), config["main"], and the seed of the job;
\* hnone says that the headers argument of the driver is None, which
\* run_config never passes
Configs ==
    { [lang |-> "py", sources |-> s, headers |-> <<>>, main |-> m, seed |-> sd, hnone |-> FALSE] :
        s \in SeqsNoDup(SourceNames), m \in SourceNames, sd \in Seeds }
    \cup
    { [lang |-> "cu", sources |-> s, headers |-> h, main |-> NoMain, seed |-> sd, hnone |-> FALSE] :
        s \in SeqsNoDup(SourceNames), h \in SeqsNoDup(SourceNames), sd \in Seeds }
    \cup
    { [lang |-> "zz", sources |-> <<"f1">>, headers |-> <<>>, main |-> NoMain,
       seed |-> DefaultSeed, hnone |-> FALSE] }

----------------------------------------------------------------------------
(* Working directory *)

Exists(f) == fs[f] # "none"

\* Path(name).write_text(content) that succeeds
WriteText(dir, f) == [dir EXCEPT ![f] = "own"]

\* variant: the existence test inverted
RemoveIfMissing(dir, f) == IF dir[f] = "none" THEN [dir EXCEPT ![f] = "none"] ELSE dir

\* os.remove behind os.path.exists
RemoveIfExists(dir, f) == IF dir[f] # "none" THEN [dir EXCEPT ![f] = "none"] ELSE dir

\* at the start of a later attempt whatever is on disk is simply there
Age(dir) ==
    [f \in Files |-> IF dir[f] \in {"own", "child"} THEN "pre" ELSE dir[f]]

----------------------------------------------------------------------------
(* Result records *)

CompileResult(found, version, ok, cmd, code) ==
    [nvcc_found |-> found, nvcc_version |-> version, success |-> ok,
     command |-> cmd, exit_code |-> code]

EmptyDict == [k \in {} |-> <<>>]

RunResult(ok, pass, cmd, out, err, code, dur, dict) ==
    [success |-> ok, passed |-> pass, command |-> cmd, stdout |-> out,
     stderr |-> err, exit_code |-> code, duration |-> dur, result |-> dict]

FullResult(ok, error, c, r) ==
    [success |-> ok, error |-> error, compile |-> c, run |-> r]

NoPipe == [made |-> FALSE, pr |-> FALSE, pw |-> FALSE, cw |-> FALSE, buf |-> <<>>]
NoChild == [state |-> "none", rc |-> 0, stdout |-> "", stderr |-> "", seed |-> 0]
NoCalls == [which |-> 0, nvcc |-> 0, spawn |-> 0]
OtherOff == [pc |-> "b_off", idx |-> 0]
NoConfig == [lang |-> "", sources |-> <<>>, headers |-> <<>>, main |-> NoMain,
             seed |-> DefaultSeed, hnone |-> FALSE]

----------------------------------------------------------------------------
Init ==
    /\ attempt = 0
    /\ cfg = NoConfig
    /\ pc = "idle"
    /\ idx = 0
    /\ pending = "none"
    /\ fs \in { d \in [Files -> {"none", "pre"}] : d[Artifact] = "none" }
    /\ written = {}
    /\ artAtStart = FALSE
    /\ comp = None
    /\ runres = None
    /\ pipe = NoPipe
    /\ child = NoChild
    /\ sent = <<>>
    /\ outcome = "none"
    /\ full = None
    /\ calls = NoCalls
    /\ other = OtherOff

\* the caller hands run_config a job configuration
Begin ==
    /\ pc = "idle"
    /\ attempt' = IF attempt = 0 THEN 1 ELSE 2
    /\ cfg' \in Configs
    /\ pc' = "config"
    /\ idx' = 0
    /\ pending' = "none"
    /\ fs' = Age(fs)
    /\ written' = {}
    /\ artAtStart' = Exists(Artifact)
    /\ comp' = None
    /\ runres' = None
    /\ pipe' = NoPipe
    /\ child' = NoChild
    /\ sent' = <<>>
    /\ outcome' = "none"
    /\ full' = None
    /\ calls' = NoCalls
    /\ other' = other

\* the caller has taken the result or the exception of run_config: nothing
\* of the call is left but the working directory
Collect ==
    /\ pc = "done"
    /\ pc' = "idle"
    /\ cfg' = NoConfig
    /\ idx' = 0
    /\ pending' = "none"
    /\ fs' = Age(fs)
    /\ written' = {}
    /\ artAtStart' = FALSE
    /\ comp' = None
    /\ runres' = None
    /\ pipe' = NoPipe
    /\ child' = NoChild
    /\ sent' = <<>>
    /\ outcome' = "none"
    /\ full' = None
    /\ calls' = NoCalls
    /\ other' = other
    /\ UNCHANGED attempt

----------------------------------------------------------------------------
(* Verdict parsing, run_program lines 151-155.  A line is a sequence of    *)
(* tokens: " " is white space, ":" the colon, any other token a word.      *)

CheckPass == <<"check", ":", " ", "pass">>
CheckFail == <<"check", ":", " ", "fail">>
\* lines a child writes to the verdict channel
VerdictLines == {CheckPass, CheckFail, <<" ">>}

Min(S) == CHOOSE x \in S : \A y \in S : x <= y

\* line.partition(":") as <<key, value>>
Partition(line) ==
    LET colons == { k \in DOMAIN line : line[k] = ":" }
    IN  IF colons = {} THEN <<line, <<>>>>
        ELSE <<SubSeq(line, 1, Min(colons) - 1),
               SubSeq(line, Min(colons) + 1, Len(line))>>

RECURSIVE LStrip(_)
LStrip(s) == IF s # <<>> /\ Head(s) = " " THEN LStrip(Tail(s)) ELSE s

RECURSIVE RStrip(_)
RStrip(s) ==
    IF s # <<>> /\ s[Len(s)] = " " THEN RStrip(SubSeq(s, 1, Len(s) - 1)) ELSE s

\* str.strip()
Strip(s) == RStrip(LStrip(s))

\* the test of line 154, on the untrimmed halves
KeepLine(key, value) == key # <<>> \/ value # <<>>

\* variant: an existing key is kept
DictSetFirstWins(d, k, v) ==
    [x \in DOMAIN d \cup {k} |-> IF x \in DOMAIN d THEN d[x] ELSE v]

\* result_dict[k] = v
DictSet(d, k, v) == [x \in DOMAIN d \cup {k} |-> IF x = k THEN v ELSE d[x]]

\* result_dict after the first n lines of the pipe's content
RECURSIVE ParseUpTo(_, _)
ParseUpTo(lines, n) ==
    IF n = 0 THEN EmptyDict
    ELSE LET d  == ParseUpTo(lines, n - 1)
             kv == Partition(lines[n])
         IN  IF KeepLine(kv[1], kv[2])
             THEN DictSet(d, Strip(kv[1]), Strip(kv[2]))
             ELSE d

ParseVerdict(lines) == ParseUpTo(lines, Len(lines))

\* variant: any reported check counts
PassedAnyCheck(d) == <<"check">> \in DOMAIN d

\* result_dict.get("check", None) == "pass"
Passed(d) == <<"check">> \in DOMAIN d /\ d[<<"check">>] = <<"pass">>

\* variant: only a zero exit code counts
SuccessOnlyZero(rc) == rc = SUCCESS

\* returncode == ExitCode.SUCCESS or returncode == ExitCode.VALIDATE_FAIL
Success(rc) == rc = SUCCESS \/ rc = VALIDATE_FAIL

----------------------------------------------------------------------------
(* run_config, run_pytorch_script, run_cuda_script *)

\* variant: an unknown language is run as a script
BranchDefaultPy(lang) == IF lang = "cu" THEN "cu_write_src" ELSE "py_assert"

\* the branch run_config takes on config["lang"]
Branch(lang) ==
    IF lang = "py" THEN "py_assert"
    ELSE IF lang = "cu" THEN "cu_write_src"
    ELSE "raise"

\* the mapping a write loop iterates over
WriteList(p, c) == IF p = "cu_write_hdr" THEN c.headers ELSE c.sources

\* variant: the scripted path cleans up before it runs the interpreter
AfterWriteCleanupFirst(p) ==
    IF p = "py_write" THEN "py_cleanup"
    ELSE IF p = "cu_write_src" THEN "cu_write_hdr"
    ELSE "cu_which"

\* where the harness continues once a write loop is over
AfterWrite(p) ==
    IF p = "py_write" THEN "rp_pipe"
    ELSE IF p = "cu_write_src" THEN "cu_write_hdr"
    ELSE "cu_which"

\* the finally block that guards position p
CleanupOf(c) ==
    IF c.lang = "py" THEN "py_cleanup"
    ELSE IF c.hnone THEN "cu_cleanup_none"
    ELSE "cu_cleanup"

\* variant: the headers are forgotten
CleanupSourcesOnly(c) == c.sources

\* the files the finally block removes
CleanupFiles(c) ==
    IF c.lang = "cu" THEN c.sources \o c.headers ELSE c.sources

\* the RunResult of lines 213-222
SyntheticRun == RunResult(FALSE, FALSE, <<>>, "", "", 0 - 1, 0, EmptyDict)

\* CompileResult of lines 86-94: which / nvcc --version exited non-zero
LookupFailure(code) == CompileResult(FALSE, "", FALSE, <<"which", "nvcc">>, code)

\* variant: the headers are handed to nvcc after the sources
CompileFilesWithHeaders(c) == c.sources \o c.headers

\* files=list(sources.keys()), line 206
CompileFiles(c) == c.sources

\* command = [nvcc] + CUDA_FLAGS + include_dirs + files + [ARCH, "-o", "eval.out"]
\* with the flags as one token and no include directories
CompileCommand(c) ==
    <<"nvcc", "CUDA_FLAGS">> \o CompileFiles(c) \o <<"-arch=native", "-o", Artifact>>

\* the files of a compile command: what stands between the flags and ARCH
FilesOf(cmd) == SubSeq(cmd, 3, Len(cmd) - 3)

\* CompileResult of lines 107-115: nvcc exited non-zero
CompileFailure(cmd, code) == CompileResult(TRUE, "nvcc-version", FALSE, cmd, code)

\* CompileResult of lines 117-125
CompileSuccess(cmd) == CompileResult(TRUE, "nvcc-version", TRUE, cmd, 0)

\* variant: only a missing toolchain ends the attempt
ShortCircuitOnMissing(cr) == ~cr.nvcc_found

\* variant: only a failed nvcc run ends the attempt
ShortCircuitOnFound(cr) == cr.nvcc_found /\ ~cr.success

\* variant: the attempt goes on to run_program whatever the compile reported
ShortCircuitNever(cr) == FALSE

\* if not compile_result.success: return ...
ShortCircuit(cr) == ~cr.success

\* variant: a failed nvcc run sends the driver back to the toolchain lookup
AfterCompileRetry(cr) == IF cr.success THEN "cu_check" ELSE "cu_which"

\* where control goes once the nvcc invocation is over: compile_cuda_script
\* returns its CompileResult to run_cuda_script, whatever the outcome
AfterCompile(cr) == "cu_check"

\* the statement after the try/finally of run_cuda_script
AfterCudaCleanup == "rp_pipe"

Dispatch ==
    /\ pc = "config"
    /\ IF Branch(cfg.lang) = "raise"
       THEN /\ pc' = "done"
            /\ outcome' = "raised"
            /\ idx' = idx
       ELSE /\ pc' = Branch(cfg.lang)
            /\ outcome' = outcome
            /\ idx' = 1
    /\ UNCHANGED <<calls, other, attempt, cfg, pending, fs, written, artAtStart, comp, runres,
                   pipe, child, sent, full>>

\* variant: the entry point is not checked
AssertMainSkipped(c) == TRUE

\* assert main in sources.keys(), line 255
AssertMain(c) == c.main \in Range(c.sources)

\* the assert statement inside the try block
PyAssert ==
    /\ pc = "py_assert"
    /\ IF AssertMain(cfg)
       THEN pc' = "py_write" /\ pending' = pending
       ELSE pc' = "py_cleanup" /\ pending' = "raise"
    /\ idx' = 1
    /\ UNCHANGED <<calls, other, attempt, cfg, fs, written, artAtStart, comp, runres, pipe,
                   child, sent, outcome, full>>

\* one pass of a write loop: Path(name).write_text(content) returns
WriteFile ==
    /\ pc \in {"py_write", "cu_write_src", "cu_write_hdr"}
    /\ idx <= Len(WriteList(pc, cfg))
    /\ LET f == WriteList(pc, cfg)[idx]
       IN  /\ fs' = WriteText(fs, f)
           /\ written' = written \cup {f}
    /\ idx' = idx + 1
    /\ UNCHANGED <<calls, other, attempt, cfg, pc, pending, artAtStart, comp, runres, pipe,
                   child, sent, outcome, full>>

\* one pass of a write loop: write_text raises, before the file is opened
\* (nothing on disk changes) or part-way through the write
WriteRaises ==
    /\ pc \in {"py_write", "cu_write_src", "cu_write_hdr"}
    /\ idx <= Len(WriteList(pc, cfg))
    /\ LET f == WriteList(pc, cfg)[idx]
       IN  \E opened \in BOOLEAN :
             /\ fs' = IF opened THEN WriteText(fs, f) ELSE fs
             /\ written' = IF opened THEN written \cup {f} ELSE written
    /\ pending' = "raise"
    /\ pc' = CleanupOf(cfg)
    /\ idx' = 1
    /\ UNCHANGED <<calls, other, attempt, cfg, artAtStart, comp, runres, pipe, child, sent,
                   outcome, full>>

WriteLoopEnd ==
    /\ pc \in {"py_write", "cu_write_src", "cu_write_hdr"}
    /\ ~(pc = "cu_write_hdr" /\ cfg.hnone)
    /\ idx > Len(WriteList(pc, cfg))
    /\ pc' = AfterWrite(pc)
    /\ idx' = 1
    /\ UNCHANGED <<calls, other, attempt, cfg, pending, fs, written, artAtStart, comp, runres,
                   pipe, child, sent, outcome, full>>

\* compile_cuda_script lines 81-94: which nvcc, nvcc --version
CompileLookup ==
    /\ pc = "cu_which"
    /\ \/ /\ pc' = "cu_nvcc"
          /\ UNCHANGED <<comp, pending, idx>>
       \/ \E code \in {1, 127} :
            /\ comp' = Some(LookupFailure(code))
            /\ pc' = "cu_check"
            /\ UNCHANGED <<pending, idx>>
       \/ \* which itself cannot be started: not a CalledProcessError
          /\ pending' = "raise"
          /\ pc' = "cu_cleanup"
          /\ idx' = 1
          /\ comp' = comp
    /\ calls' = [calls EXCEPT !.which = @ + 1]
    /\ UNCHANGED <<other, attempt, cfg, fs, written, artAtStart, runres, pipe, child,
                   sent, outcome, full>>

\* compile_cuda_script lines 101-125: the nvcc invocation
CompileRun ==
    /\ pc = "cu_nvcc"
    /\ \/ /\ comp' = Some(CompileSuccess(CompileCommand(cfg)))
          /\ fs' = [fs EXCEPT ![Artifact] = "art"]
       \/ \E code \in {1, 2} :
            /\ comp' = Some(CompileFailure(CompileCommand(cfg), code))
            /\ fs' = fs
    /\ pc' = AfterCompile(comp'[1])
    /\ calls' = [calls EXCEPT !.nvcc = @ + 1]
    /\ UNCHANGED <<other, attempt, cfg, idx, pending, written, artAtStart, runres, pipe,
                   child, sent, outcome, full>>

\* run_cuda_script lines 212-222, entering the finally block
CompileCheck ==
    /\ pc = "cu_check"
    /\ IF ShortCircuit(comp[1])
       THEN pending' = "return" /\ runres' = Some(SyntheticRun)
       ELSE pending' = pending /\ runres' = runres
    /\ pc' = "cu_cleanup"
    /\ idx' = 1
    /\ UNCHANGED <<calls, other, attempt, cfg, fs, written, artAtStart, comp, pipe, child,
                   sent, outcome, full>>

\* one pass of the loop of a finally block
CleanupStep ==
    /\ pc \in {"py_cleanup", "cu_cleanup"}
    /\ idx <= Len(CleanupFiles(cfg))
    /\ fs' = RemoveIfExists(fs, CleanupFiles(cfg)[idx])
    /\ idx' = idx + 1
    /\ UNCHANGED <<calls, other, attempt, cfg, pc, pending, written, artAtStart, comp, runres,
                   pipe, child, sent, outcome, full>>

\* the finally block is over: the pending return or exception takes effect
CleanupEnd ==
    /\ pc \in {"py_cleanup", "cu_cleanup"}
    /\ idx > Len(CleanupFiles(cfg))
    /\ IF pending = "raise"
       THEN pc' = "done" /\ outcome' = "raised"
       ELSE IF pending = "return"
       THEN pc' = "ret" /\ outcome' = outcome
       ELSE pc' = AfterCudaCleanup /\ outcome' = outcome
    /\ pending' = "none"
    /\ idx' = 0
    /\ UNCHANGED <<calls, other, attempt, cfg, fs, written, artAtStart, comp, runres, pipe,
                   child, sent, full>>

\* run_config builds the FullResult
\* variant: the harness reports the success of the run as its own
HarnessSuccessOfRun(r) == r.success

\* FullResult(success=True, ...), lines 273 and 281: the harness ran to its end
HarnessSuccess(r) == TRUE

Return ==
    /\ pc = "ret"
    /\ full' = Some(FullResult(HarnessSuccess(runres[1]), "",
                               IF cfg.lang = "py" THEN None ELSE comp, runres))
    /\ outcome' = "returned"
    /\ pc' = "done"
    /\ UNCHANGED <<calls, other, attempt, cfg, idx, pending, fs, written, artAtStart, comp,
                   runres, pipe, child, sent>>

----------------------------------------------------------------------------
(* run_program *)

\* the seed run_program is called with: run_config hands no seed to
\* run_pytorch_script / run_cuda_script, whose parameter keeps its default
SeedArg(c) == DefaultSeed

\* the command line handed to run_program
Command(c) == IF c.lang = "py" THEN <<"python", c.main>> ELSE <<"./eval.out">>

\* variant: the parent never closes its copy of the write end
AfterWaitSkipClose == "rp_read"

\* the statement run_program executes once subprocess.run has returned
AfterWait == "rp_close"

\* os.pipe() and the environment of the child
RpPipe ==
    /\ pc = "rp_pipe"
    /\ pipe' = [made |-> TRUE, pr |-> TRUE, pw |-> TRUE, cw |-> FALSE, buf |-> <<>>]
    /\ pc' = "rp_spawn"
    /\ UNCHANGED <<calls, other, attempt, cfg, idx, pending, fs, written, artAtStart, comp,
                   runres, child, sent, outcome, full>>

\* subprocess.run starts the child, which inherits the write end (pass_fds)
RpSpawn ==
    /\ pc = "rp_spawn"
    /\ cfg.lang = "cu" => Exists(Artifact)
    /\ child' = [NoChild EXCEPT !.state = "running", !.seed = SeedArg(cfg)]
    /\ pipe' = [pipe EXCEPT !.cw = TRUE]
    /\ pc' = "rp_wait"
    /\ calls' = [calls EXCEPT !.spawn = @ + 1]
    /\ UNCHANGED <<other, attempt, cfg, idx, pending, fs, written, artAtStart, comp,
                   runres, sent, outcome, full>>

\* subprocess.run cannot start the child and raises
RpSpawnRaises ==
    /\ pc = "rp_spawn"
    /\ IF cfg.lang = "py"
       THEN /\ pending' = "raise"
            /\ pc' = CleanupOf(cfg)
            /\ idx' = 1
            /\ outcome' = outcome
       ELSE /\ pending' = pending
            /\ pc' = "done"
            /\ idx' = idx
            /\ outcome' = "raised"
    /\ calls' = [calls EXCEPT !.spawn = @ + 1]
    /\ UNCHANGED <<other, attempt, cfg, fs, written, artAtStart, comp, runres, pipe,
                   child, sent, full>>

\* the child writes one verdict line to the descriptor of POPCORN_FD; with
\* the pipe full the write blocks, and nobody reads while the child runs
ChildWrite ==
    /\ child.state = "running"
    /\ pipe.cw
    /\ \E line \in VerdictLines :
         IF Len(pipe.buf) < PipeCapacity
         THEN /\ pipe' = [pipe EXCEPT !.buf = Append(@, line)]
              /\ sent' = Append(sent, line)
              /\ child' = child
         ELSE /\ child' = [child EXCEPT !.state = "blocked"]
              /\ UNCHANGED <<pipe, sent>>
    /\ UNCHANGED <<calls, other, attempt, cfg, pc, idx, pending, fs, written, artAtStart, comp,
                   runres, outcome, full>>

\* the child creates or overwrites a file under a name of the submission
ChildCreate ==
    /\ child.state = "running"
    /\ \E f \in Range(cfg.sources) \cup Range(cfg.headers) :
         fs' = [fs EXCEPT ![f] = "child"]
    /\ UNCHANGED <<calls, other, attempt, cfg, pc, idx, pending, written, artAtStart, comp,
                   runres, pipe, child, sent, outcome, full>>

\* the child exits; its descriptors are closed
ChildExit ==
    /\ child.state = "running"
    /\ \E rc \in ExitCodes, o \in ChildOutputs :
         child' = [child EXCEPT !.state = "exited", !.rc = rc,
                                !.stdout = o[1], !.stderr = o[2]]
    /\ pipe' = [pipe EXCEPT !.cw = FALSE]
    /\ UNCHANGED <<calls, other, attempt, cfg, pc, idx, pending, fs, written, artAtStart, comp,
                   runres, sent, outcome, full>>

\* subprocess.run returns: the child has exited
RpWait ==
    /\ pc = "rp_wait"
    /\ child.state = "exited"
    /\ pc' = AfterWait
    /\ UNCHANGED <<calls, other, attempt, cfg, idx, pending, fs, written, artAtStart, comp,
                   runres, pipe, child, sent, outcome, full>>

\* os.close(pipe_write)
RpClose ==
    /\ pc = "rp_close"
    /\ pipe' = [pipe EXCEPT !.pw = FALSE]
    /\ pc' = "rp_read"
    /\ UNCHANGED <<calls, other, attempt, cfg, idx, pending, fs, written, artAtStart, comp,
                   runres, child, sent, outcome, full>>

\* lines 149-169: read() returns at end of file, which needs every copy of
\* the write end closed; the content is parsed and the RunResult returned
RpRead ==
    /\ pc = "rp_read"
    /\ ~pipe.pw /\ ~pipe.cw
    /\ LET d == ParseVerdict(pipe.buf)
       IN  runres' = Some(RunResult(Success(child.rc), Passed(d), Command(cfg),
                                    child.stdout, child.stderr, child.rc, 1, d))
    /\ pipe' = [pipe EXCEPT !.pr = FALSE, !.buf = <<>>]
    /\ IF cfg.lang = "py"
       THEN pc' = CleanupOf(cfg) /\ pending' = "return" /\ idx' = 1
       ELSE pc' = "ret" /\ pending' = pending /\ idx' = idx
    /\ UNCHANGED <<calls, other, attempt, cfg, fs, written, artAtStart, comp, child, sent,
                   outcome, full>>

----------------------------------------------------------------------------
Next ==
    \/ Begin
    \/ Collect
    \/ Dispatch
    \/ PyAssert
    \/ WriteFile
    \/ WriteRaises
    \/ WriteLoopEnd
    \/ CompileLookup
    \/ CompileRun
    \/ CompileCheck
    \/ CleanupStep
    \/ CleanupEnd
    \/ Return
    \/ RpPipe
    \/ RpSpawn
    \/ RpSpawnRaises
    \/ ChildWrite
    \/ ChildCreate
    \/ ChildExit
    \/ RpWait
    \/ RpClose
    \/ RpRead

Spec == Init /\ [][Next]_vars
----------------------------------------------------------------------------
(* run_cuda_script called directly with the headers argument left out.     *)
(* Its default is None (line 174) and nothing replaces it by a mapping.    *)

\* arguments of a direct call: sources given, headers omitted
DirectConfigs ==
    { [lang |-> "cu", sources |-> s, headers |-> <<>>, main |-> NoMain, seed |-> sd,
       hnone |-> TRUE] :
        s \in SeqsNoDup(SourceNames), sd \in Seeds }

\* run_cuda_script is called: the try block starts with the first write loop
BeginDirect ==
    /\ pc = "idle"
    /\ attempt' = IF attempt = 0 THEN 1 ELSE 2
    /\ cfg' \in DirectConfigs
    /\ pc' = "cu_write_src"
    /\ idx' = 1
    /\ pending' = "none"
    /\ fs' = Age(fs)
    /\ written' = {}
    /\ artAtStart' = Exists(Artifact)
    /\ comp' = None
    /\ runres' = None
    /\ pipe' = NoPipe
    /\ child' = NoChild
    /\ sent' = <<>>
    /\ outcome' = "none"
    /\ full' = None
    /\ calls' = NoCalls
    /\ other' = other

\* line 202: headers.items() on None raises AttributeError inside the try
\* block, and the finally block is entered
HeadersNoneRaises ==
    /\ pc = "cu_write_hdr"
    /\ cfg.hnone
    /\ pending' = "raise"
    /\ pc' = CleanupOf(cfg)
    /\ idx' = 1
    /\ UNCHANGED <<calls, other, attempt, cfg, fs, written, artAtStart, comp, runres,
                   pipe, child, sent, outcome, full>>

\* line 227: headers.keys() on None raises AttributeError inside the finally
\* block, before the removal loop; that exception leaves run_cuda_script
CleanupNoneRaises ==
    /\ pc = "cu_cleanup_none"
    /\ pc' = "done"
    /\ outcome' = "raised"
    /\ pending' = "none"
    /\ idx' = 0
    /\ UNCHANGED <<calls, other, attempt, cfg, fs, written, artAtStart, comp, runres,
                   pipe, child, sent, full>>

NextDirect ==
    \/ BeginDirect
    \/ Collect
    \/ WriteFile
    \/ WriteRaises
    \/ WriteLoopEnd
    \/ HeadersNoneRaises
    \/ CleanupNoneRaises

SpecDirect == Init /\ [][NextDirect]_vars

----------------------------------------------------------------------------
(* Two attempts in one working directory.  The first is the attempt        *)
(* modelled above; the second runs run_cuda_script at the same time and is *)
(* followed through what it does to the shared directory: its writes, its  *)
(* nvcc run and its finally block.  Files it writes have the kind "other", *)
(* its artifact the kind "art_other".                                      *)

\* the job of the second attempt: the same file name, the same artifact
OtherConfig ==
    [lang |-> "cu", sources |-> <<"f1">>, headers |-> <<>>, main |-> NoMain,
     seed |-> DefaultSeed, hnone |-> FALSE]

\* jobs of the first attempt while a second one is running
ConcConfigs ==
    { [lang |-> "py", sources |-> <<"f1">>, headers |-> <<>>, main |-> "f1",
       seed |-> DefaultSeed, hnone |-> FALSE],
      [lang |-> "cu", sources |-> <<"f1">>, headers |-> <<>>, main |-> NoMain,
       seed |-> DefaultSeed, hnone |-> FALSE],
      [lang |-> "cu", sources |-> <<"f2">>, headers |-> <<>>, main |-> NoMain,
       seed |-> DefaultSeed, hnone |-> FALSE] }

\* the first attempt is called, once
BeginConc ==
    /\ pc = "idle"
    /\ attempt = 0
    /\ attempt' = 1
    /\ cfg' \in ConcConfigs
    /\ pc' = "config"
    /\ artAtStart' = Exists(Artifact)
    /\ UNCHANGED <<idx, pending, fs, written, comp, runres, pipe, child, sent,
                   outcome, full, calls, other>>

\* the second attempt is called
OtherBegin ==
    /\ other.pc = "b_off"
    /\ other' = [pc |-> "b_write", idx |-> 1]
    /\ UNCHANGED <<attempt, cfg, pc, idx, pending, fs, written, artAtStart, comp,
                   runres, pipe, child, sent, outcome, full, calls>>

\* one pass of the write loops of the second attempt (lines 199-203)
OtherWrite ==
    /\ other.pc = "b_write"
    /\ other.idx <= Len(CleanupFiles(OtherConfig))
    /\ fs' = [fs EXCEPT ![CleanupFiles(OtherConfig)[other.idx]] = "other"]
    /\ other' = [other EXCEPT !.idx = @ + 1]
    /\ UNCHANGED <<attempt, cfg, pc, idx, pending, written, artAtStart, comp,
                   runres, pipe, child, sent, outcome, full, calls>>

\* the second attempt compiles (lines 205-210): nvcc writes eval.out or fails
OtherCompile ==
    /\ other.pc = "b_write"
    /\ other.idx > Len(CleanupFiles(OtherConfig))
    /\ \/ fs' = [fs EXCEPT ![Artifact] = "art_other"]
       \/ fs' = fs
    /\ other' = [pc |-> "b_cleanup", idx |-> 1]
    /\ UNCHANGED <<attempt, cfg, pc, idx, pending, written, artAtStart, comp,
                   runres, pipe, child, sent, outcome, full, calls>>

\* one pass of the finally loop of the second attempt (lines 226-230)
OtherCleanup ==
    /\ other.pc = "b_cleanup"
    /\ other.idx <= Len(CleanupFiles(OtherConfig))
    /\ fs' = RemoveIfExists(fs, CleanupFiles(OtherConfig)[other.idx])
    /\ other' = [other EXCEPT !.idx = @ + 1]
    /\ UNCHANGED <<attempt, cfg, pc, idx, pending, written, artAtStart, comp,
                   runres, pipe, child, sent, outcome, full, calls>>

\* the finally block of the second attempt is over
OtherCleanupEnd ==
    /\ other.pc = "b_cleanup"
    /\ other.idx > Len(CleanupFiles(OtherConfig))
    /\ other' = [pc |-> "b_done", idx |-> 0]
    /\ UNCHANGED <<attempt, cfg, pc, idx, pending, fs, written, artAtStart, comp,
                   runres, pipe, child, sent, outcome, full, calls>>

NextConc ==
    \/ BeginConc
    \/ Dispatch
    \/ PyAssert
    \/ WriteFile
    \/ WriteRaises
    \/ WriteLoopEnd
    \/ CompileLookup
    \/ CompileRun
    \/ CompileCheck
    \/ CleanupStep
    \/ CleanupEnd
    \/ Return
    \/ RpPipe
    \/ RpSpawn
    \/ RpSpawnRaises
    \/ ChildWrite
    \/ ChildCreate
    \/ ChildExit
    \/ RpWait
    \/ RpClose
    \/ RpRead
    \/ OtherBegin
    \/ OtherWrite
    \/ OtherCompile
    \/ OtherCleanup
    \/ OtherCleanupEnd

SpecConc == Init /\ [][NextConc]_vars

----------------------------------------------------------------------------
(* Properties *)

InRunProgram == pc \in {"rp_pipe", "rp_spawn", "rp_wait", "rp_close", "rp_read"}

\* the RunResult in hand was produced by run_program
RanProgram == runres # None /\ pipe.made

\* C1: once run_config has returned or raised, no file this attempt wrote
\* from the sources or the headers mapping is still in the working
\* directory, on either branch and whichever step failed.
C1_WrittenFilesRemoved ==
    pc = "done" => \A f \in written : fs[f] # "own"

C1_Witness ==
    /\ pc = "done"
    /\ outcome = "raised"
    /\ cfg.lang = "cu"
    /\ Range(cfg.headers) \cap written # {}
    /\ comp = None

\* C2: on the native path every file written by this attempt is gone from
\* the working directory before run_program is entered, hence before the
\* artifact is spawned and for as long as it runs.
C2_SourcesGoneBeforeArtifactRuns ==
    (cfg.lang = "cu" /\ (InRunProgram \/ child.state # "none"))
        => \A f \in written : fs[f] # "own"

C2_Witness ==
    /\ cfg.lang = "cu"
    /\ child.state = "running"
    /\ Range(cfg.sources) # {}
    /\ Range(cfg.headers) \ Range(cfg.sources) # {}
    /\ written = Range(cfg.sources) \cup Range(cfg.headers)

\* C3: a native job whose compilation fails (toolchain missing or nvcc
\* exiting non-zero) never enters run_program: no pipe is made and no child
\* is spawned; run_config returns compile.success = false together with
\* the synthetic RunResult.
C3_CompileFailureShortCircuits ==
    (cfg.lang = "cu" /\ comp # None /\ ~comp[1].success) =>
        /\ ~pipe.made
        /\ child.state = "none"
        /\ ~InRunProgram
        /\ pc = "done" =>
             /\ outcome = "returned"
             /\ full # None
             /\ full[1].compile = comp
             /\ full[1].run # None
             /\ LET r == full[1].run[1]
                IN  /\ ~r.success /\ ~r.passed
                    /\ r.exit_code = 0 - 1
                    /\ r.duration = 0
                    /\ r.command = <<>> /\ r.stdout = "" /\ r.stderr = ""
                    /\ DOMAIN r.result = {}

C3_Witness ==
    /\ pc = "done"
    /\ cfg.lang = "cu"
    /\ comp # None
    /\ comp[1].nvcc_found
    /\ ~comp[1].success
    /\ outcome = "returned"

\* C4: passed is true exactly when the parsed mapping has the key check
\* with the value pass; a child that wrote no line holding the word pass
\* (in particular one that wrote nothing and exited 0) does not pass,
\* whatever it printed on stdout.
C4_PassedIffCheckPass ==
    RanProgram =>
        LET r == runres[1]
        IN  /\ r.passed <=> (<<"check">> \in DOMAIN r.result
                              /\ r.result[<<"check">>] = <<"pass">>)
            /\ (\A k \in DOMAIN sent : "pass" \notin Range(sent[k])) => ~r.passed

C4_Witness ==
    /\ RanProgram
    /\ sent = <<>>
    /\ child.rc = SUCCESS
    /\ child.stdout = "check: pass"
    /\ ~runres[1].passed

\* the trimmed key and the trimmed value a verdict line stands for
KeyOf(line) == Strip(Partition(line)[1])
ValueOf(line) == Strip(Partition(line)[2])

\* the child wrote the line check: pass somewhere, exited 0 and
\* run_config returned the RunResult of run_program
WroteCheckPassExitZero ==
    /\ pc = "done"
    /\ outcome = "returned"
    /\ RanProgram
    /\ child.rc = SUCCESS
    /\ \E k \in DOMAIN sent : sent[k] = CheckPass

\* C5 as stated: a child that writes check: pass among other verdict
\* lines, in any position, and exits 0 gets passed = true and success = true.
C5_AnyPositionPasses ==
    WroteCheckPassExitZero =>
        full[1].run[1].passed /\ full[1].run[1].success

\* C5 amended: a child that writes check: pass, after it no line whose
\* trimmed key is check with another value, and exits 0 gets passed = true
\* and success = true.
C5_LastCheckPasses ==
    ( /\ WroteCheckPassExitZero
      /\ \E k \in DOMAIN sent :
            /\ sent[k] = CheckPass
            /\ \A j \in DOMAIN sent :
                 (j > k /\ KeyOf(sent[j]) = <<"check">>)
                    => ValueOf(sent[j]) = <<"pass">> )
    => full[1].run[1].passed /\ full[1].run[1].success

C5_Witness ==
    /\ WroteCheckPassExitZero
    /\ sent = <<CheckFail, CheckPass>>
    /\ full[1].run[1].passed
    /\ full[1].run[1].success

\* the mapping C6 describes: a line whose trimmed key and trimmed value are
\* both empty adds nothing, every other line adds its entry, last one wins
RECURSIVE ClaimedDict(_, _)
ClaimedDict(lines, n) ==
    IF n = 0 THEN EmptyDict
    ELSE LET d == ClaimedDict(lines, n - 1)
             k == KeyOf(lines[n])
             v == ValueOf(lines[n])
         IN  IF k = <<>> /\ v = <<>> THEN d
             ELSE [x \in DOMAIN d \cup {k} |-> IF x = k THEN v ELSE d[x]]

\* C6: the result mapping holds an entry for every verdict line except
\* those whose trimmed key and trimmed value are both empty, so it never
\* holds the entry '' -> ''; for duplicate keys the last line wins.
C6_BlankLinesDropped ==
    RanProgram =>
        /\ runres[1].result = ClaimedDict(sent, Len(sent))
        /\ ~(<<>> \in DOMAIN runres[1].result /\ runres[1].result[<<>>] = <<>>)

\* C7 as stated: the parent has closed its copy of the write end before it
\* waits for the child to exit.
C7_ClosedBeforeWait ==
    pc = "rp_wait" => ~pipe.pw

\* C7 amended: the parent keeps its copy of the write end open for as long
\* as the child runs and closes it once the child has exited, before it
\* reads the pipe; when it reads no copy of the write end is open.
C7_ClosedAfterExitBeforeRead ==
    /\ child.state \in {"running", "blocked"} => pipe.pw
    /\ pc = "rp_wait" => pipe.pw
    /\ pc = "rp_read" => (child.state = "exited" /\ ~pipe.pw /\ ~pipe.cw)

C7_Witness ==
    /\ pc = "rp_read"
    /\ ~pipe.pw
    /\ pipe.pr
    /\ sent # <<>>

\* C8: success is true exactly when the exit code is SUCCESS or
\* VALIDATE_FAIL, whatever the verdict; VALIDATE_FAIL with check: fail gives
\* success and not passed; any exit code ends in a returned record that
\* keeps stdout, stderr and the exit code, not in an exception.
C8_SuccessIffRecognisedExit ==
    RanProgram =>
        LET r == runres[1]
        IN  /\ r.success <=> (child.rc = SUCCESS \/ child.rc = VALIDATE_FAIL)
            /\ r.exit_code = child.rc
            /\ r.stdout = child.stdout
            /\ r.stderr = child.stderr
            /\ (child.rc = VALIDATE_FAIL /\ sent = <<CheckFail>>)
                  => (r.success /\ ~r.passed)
            /\ pc = "done" => (outcome = "returned" /\ full[1].run = runres)

C8_Witness ==
    /\ pc = "done"
    /\ RanProgram
    /\ child.rc = VALIDATE_FAIL
    /\ sent = <<CheckFail>>
    /\ full[1].run[1].success
    /\ ~full[1].run[1].passed

\* C9: with a language that is neither py nor cu run_config raises at once:
\* no FullResult, no file written or removed, no compiler, no pipe, no child.
C9_UnknownLanguageRaises ==
    [][ (pc = "config" /\ cfg.lang \notin {"py", "cu"}) =>
          /\ pc' = "done"
          /\ outcome' = "raised"
          /\ full' = None
          /\ fs' = fs
          /\ written' = {}
          /\ comp' = None
          /\ ~pipe'.made
          /\ child'.state = "none" ]_vars

C9_Witness ==
    /\ pc = "done"
    /\ cfg.lang = "zz"
    /\ outcome = "raised"
    /\ \E f \in Range(cfg.sources) : fs[f] = "pre"

\* the toolchain was not found in this (native) attempt, which is over
ToolchainMissingDone ==
    /\ pc = "done"
    /\ cfg.lang = "cu"
    /\ comp # None
    /\ ~comp[1].nvcc_found

\* what run_config hands back when the toolchain is missing
MissingToolchainResult ==
    /\ ~comp[1].success
    /\ comp[1].nvcc_version = ""
    /\ outcome = "returned"
    /\ full # None
    /\ full[1].compile = comp
    /\ full[1].run # None
    /\ ~full[1].run[1].success
    /\ ~full[1].run[1].passed
    /\ full[1].run[1].exit_code = 0 - 1
    /\ DOMAIN full[1].run[1].result = {}

\* C10 as stated: with the toolchain missing run_config returns the failed
\* CompileResult and the synthetic RunResult, and eval.out does not exist
\* when it returns, at any position in a sequence of attempts.
C10_NoArtifactOnDisk ==
    ToolchainMissingDone => (MissingToolchainResult /\ ~Exists(Artifact))

\* C10 amended: with the toolchain missing run_config returns the failed
\* CompileResult and the synthetic RunResult, and the attempt creates no
\* artifact: eval.out exists when it returns only if it existed when the
\* attempt began; after a first attempt in a directory without it, none.
C10_NoArtifactCreated ==
    ToolchainMissingDone =>
        /\ MissingToolchainResult
        /\ Exists(Artifact) => artAtStart
        /\ attempt = 1 => ~Exists(Artifact)

C10_Witness ==
    /\ ToolchainMissingDone
    /\ MissingToolchainResult
    /\ attempt = 2
    /\ fs[Artifact] = "art"

\* C11: on the scripted path every file of sources is in the working
\* directory from the entry of run_program until it has returned (so while
\* the interpreter is spawned and runs), and none of them is left once
\* run_config has returned or raised, whichever step raised.
C11_ScriptSourcesPresentWhileRunning ==
    /\ (cfg.lang = "py" /\ (InRunProgram \/ child.state \in {"running", "blocked"}))
          => \A f \in Range(cfg.sources) : Exists(f)
    /\ (cfg.lang = "py" /\ pc = "done")
          => \A f \in Range(cfg.sources) : ~Exists(f)

C11_Witness ==
    /\ cfg.lang = "py"
    /\ pc = "done"
    /\ outcome = "returned"
    /\ child.state = "exited"
    /\ Len(cfg.sources) = 2
    /\ written = Range(cfg.sources)

\* C12: on both paths the seed the child finds in POPCORN_SEED is the seed
\* of the job configuration handed to run_config.
C12_ChildGetsConfigSeed ==
    child.state # "none" => child.seed = cfg.seed

\* C13: in one call of run_config the toolchain lookup, the nvcc invocation
\* and the spawn of the child happen at most once each; the call ends
\* either with a raised error or with a FullResult, never both; a failed
\* compilation shows in compile alone (run is the synthetic record, no
\* child was spawned) and a failing child in run alone.
C13_NoRetry ==
    /\ calls.which <= 1
    /\ calls.nvcc <= 1
    /\ calls.spawn <= 1
    /\ pc = "done" =>
         /\ (outcome = "raised") <=> (full = None)
         /\ (outcome = "returned" /\ cfg.lang = "cu") =>
              IF full[1].compile[1].success
              THEN /\ calls.spawn = 1
                   /\ full[1].run[1].exit_code = child.rc
              ELSE /\ calls.spawn = 0
                   /\ full[1].run[1].exit_code = 0 - 1
         /\ (outcome = "returned" /\ cfg.lang = "py") =>
              /\ calls = [which |-> 0, nvcc |-> 0, spawn |-> 1]
              /\ full[1].run[1].exit_code = child.rc

C13_Witness ==
    /\ pc = "done"
    /\ outcome = "returned"
    /\ calls = [which |-> 1, nvcc |-> 1, spawn |-> 1]
    /\ ~full[1].run[1].success
    /\ full[1].compile[1].success

\* the first attempt is about to run nvcc on a source file that the
\* second attempt's finally block has removed
CompilesRemovedSource ==
    /\ cfg.lang = "cu"
    /\ pc = "cu_nvcc"
    /\ \E f \in Range(cfg.sources) : f \in written /\ fs[f] = "none"

\* the first attempt is about to run nvcc on content the second wrote
CompilesOtherContent ==
    /\ cfg.lang = "cu"
    /\ pc = "cu_nvcc"
    /\ \E f \in Range(cfg.sources) : f \in written /\ fs[f] = "other"

\* the first attempt is about to execute the artifact the second compiled
RunsOtherArtifact ==
    /\ cfg.lang = "cu"
    /\ pc = "rp_spawn"
    /\ comp # None /\ comp[1].success
    /\ fs[Artifact] = "art_other"

\* the interpreter of the first attempt runs and its source has been
\* removed by the second attempt
ScriptLosesSource ==
    /\ cfg.lang = "py"
    /\ child.state = "running"
    /\ \E f \in Range(cfg.sources) : f \in written /\ fs[f] = "none"

\* C14: with two attempts in one working directory nothing holds a write or
\* a cleanup back: a pass of either finally loop leaves the named file
\* removed and a write of the second attempt replaces the file of that
\* name, whoever wrote it and wherever the other attempt stands; the
\* interleavings in which the attempts interfere are reachable (witness).
C14_NoGuardBetweenAttempts ==
    [][ /\ (other.pc = "b_cleanup" /\ other'.pc = "b_cleanup"
              /\ other'.idx = other.idx + 1)
           => fs'[CleanupFiles(OtherConfig)[other.idx]] = "none"
        /\ (other.pc = "b_write" /\ other'.pc = "b_write"
              /\ other'.idx = other.idx + 1)
           => fs'[CleanupFiles(OtherConfig)[other.idx]] = "other"
        /\ (pc \in {"py_cleanup", "cu_cleanup"} /\ pc' = pc /\ idx' = idx + 1)
           => fs'[CleanupFiles(cfg)[idx]] = "none" ]_vars

C14_Witness ==
    /\ CompilesRemovedSource
    /\ other.pc = "b_done"
    /\ fs[Artifact] = "art_other"

\* C15: whenever run_config returns a FullResult its success is true and
\* its error is empty, whatever compile.success, run.success and run.passed
\* are; compile is absent exactly for a script job and run is present.
C15_HarnessSuccessIndependent ==
    outcome = "returned" =>
        /\ full # None
        /\ full[1].success
        /\ full[1].error = ""
        /\ (full[1].compile = None) <=> (cfg.lang = "py")
        /\ full[1].run # None

C15_Witness ==
    /\ outcome = "returned"
    /\ cfg.lang = "cu"
    /\ full[1].success
    /\ full[1].compile[1].success
    /\ ~full[1].run[1].success
    /\ ~full[1].run[1].passed

\* a header name that is not a key of sources as well
HeaderOnly(c) == Range(c.headers) \ Range(c.sources)

C17_NoPipeDeadlock ==
    ~ /\ pc = "rp_wait"
      /\ child.state = "blocked"
      /\ Len(pipe.buf) = PipeCapacity
      /\ pipe.pr

\* C18: in every attempt of a sequence of native attempts in one directory
\* ./eval.out is started, and a child exists, only if the compile call of
\* that same attempt reported success.
C18_RunsOnlyOwnCompile ==
    (cfg.lang = "cu" /\ (calls.spawn > 0 \/ child.state # "none" \/ InRunProgram))
        => /\ comp # None
           /\ comp[1].success
           /\ calls.nvcc = 1

C18_Witness ==
    /\ attempt = 2
    /\ artAtStart
    /\ cfg.lang = "cu"
    /\ pc = "done"
    /\ outcome = "returned"
    /\ ~full[1].compile[1].success
    /\ Exists(Artifact)
    /\ calls.spawn = 0
    /\ child.state = "none"

\* C19 as stated: when run_cuda_script, called without headers, has
\* returned or raised, no file it wrote for a key of sources is left.
C19_SourcesRemovedWithoutHeaders ==
    (pc = "done" /\ cfg.lang = "cu" /\ cfg.hnone)
        => \A f \in written \cap Range(cfg.sources) : fs[f] # "own"

\* files of the working directory that no key of sources names
NotSourceNamed(c) == Files \ Range(c.sources)

\* C20: for a script job whose main is not a key of sources the assert
\* fails before any file is written and no interpreter is started; until
\* run_pytorch_script has raised, every file not named by a key of sources
\* stays as it was, and the call ends with the exception.
C20_BadMainRaisesBeforeWriting ==
    [][ (cfg.lang = "py" /\ cfg.main \notin Range(cfg.sources) /\ pc \in {"py_assert", "py_cleanup"})
          => /\ \A f \in NotSourceNamed(cfg) : fs'[f] = fs[f]
             /\ \A f \in Files : fs'[f] \in {fs[f], "none"}
             /\ written' = {}
             /\ child' = NoChild /\ pipe' = NoPipe /\ calls' = NoCalls
             /\ pc' \in {"py_cleanup", "done"}
             /\ pc' = "done" => outcome' = "raised" /\ full' = None ]_vars

C20_Witness ==
    /\ cfg.lang = "py"
    /\ cfg.sources = <<"f2">>
    /\ cfg.main = "f1"
    /\ pc = "done"
    /\ outcome = "raised"
    /\ fs["f1"] = "pre"
    /\ fs["f2"] = "none"
    /\ attempt = 1
    /\ written = {}
    /\ child.state = "none"

====
